---- MODULE Spec2Model ----
(***************************************************************************)
(* GrumpyVM: the bytecode codec (src/isa.rs) and the executor (src/vm.rs). *)
(*                                                                         *)
(* Machine words.  TLC's integers are 32 bits wide, so every 32-bit word   *)
(* (i32, u32) is held as its two's-complement signed reading: the u32     *)
(* 2^32 - k is the integer -k.  A usize that comes from `i as usize` of an *)
(* i32 (a sign extension) is held the same way: 2^64 - k is -k.  Unsigned  *)
(* comparisons go through ULt.                                             *)
(***************************************************************************)
EXTENDS Integers, Sequences, FiniteSets, TLC

VARIABLES
    debug,           \* run's Debug argument d: "DEBUG" or "NODEBUG"
    overflow_checks, \* the build: TRUE panics on integer overflow, FALSE wraps
    prog,            \* State.prog
    pc,              \* State.pc
    fp,              \* State.fp
    stk,             \* State.stk
    heap,            \* State.heap
    status,          \* "running", or how run ended: "ok", "err", "panic"
    msg,             \* the Err message of run, "" otherwise
    result,          \* the Ok value of run, NoVal otherwise
    last,            \* the instruction fetched by the latest iteration of exec
    recent,          \* history: the latest instructions executed, oldest first
    at_setframe,     \* history: fp and stack found by the latest SetFrame
    at_call,         \* history: return address, fp and stack found by the latest Call
    cprog,           \* codec: the program handed to to_bytes
    bytes,           \* codec: the encoded byte sequence
    decoded,         \* codec: what Vec<Instr>::from_bytes returned
    cphase,          \* codec: "idle", "start", "encoded", "decoded"
    line,            \* text: the line handed to from_str, as its tokens
    parsed,          \* text: what Instr::from_str or PInstr::from_str returned
    pinstrs,         \* text: the pseudo-program handed to assemble
    assembled        \* text: how assemble ended

vars == <<debug, overflow_checks, prog, pc, fp, stk, heap, status, msg, result,
          last, recent, at_setframe, at_call, cprog, bytes, decoded, cphase,
          line, parsed, pinstrs, assembled>>

vmvars == <<debug, overflow_checks, prog, pc, fp, stk, heap, status, msg, result,
            last, recent, at_setframe, at_call>>

codecvars == <<cprog, bytes, decoded, cphase>>

textvars == <<line, parsed, pinstrs, assembled>>

----------------------------------------------------------------------------
(* 32-bit words *)

I32_MAX == 2147483647

I32_MIN == -2147483647 - 1

STK_SIZE == 1024

HEAP_SIZE == 1024

\* a < b as unsigned words (a negative reading is a word with the top bit set)
ULt(a, b) == IF (a < 0) = (b < 0) THEN a < b ELSE a >= 0

\* a + b modulo 2^32, as a signed reading
WrapAdd(a, b) ==
    IF b > 0 /\ a > I32_MAX - b THEN (a - I32_MAX - 1) + (b + I32_MIN)
    ELSE IF b < 0 /\ a < I32_MIN - b THEN (a - I32_MIN) + ((b + I32_MAX) + 1)
    ELSE a + b

\* i32 addition overflows
AddOverflows(a, b) ==
    \/ b > 0 /\ a > I32_MAX - b
    \/ b < 0 /\ a < I32_MIN - b

\* a - b modulo 2^32, as a signed reading
WrapSub(a, b) ==
    IF b < 0 /\ a > I32_MAX + b THEN (a - I32_MAX - 1) + (I32_MIN - b)
    ELSE IF b > 0 /\ a < I32_MIN + b THEN (a - I32_MIN) + ((I32_MAX - b) + 1)
    ELSE a - b

\* i32 subtraction overflows
SubOverflows(a, b) ==
    \/ b < 0 /\ a > I32_MAX + b
    \/ b > 0 /\ a < I32_MIN + b

\* the low and the high half of a word, each in 0..65535
Lo16(a) == a % 65536

Hi16(a) == ((a - Lo16(a)) \div 65536) % 65536

\* the word with halves hi and lo, as a signed reading
Word(hi, lo) ==
    IF hi >= 32768 THEN (hi - 65536) * 65536 + lo ELSE hi * 65536 + lo

\* x * y modulo 2^16 for x, y in 0..65535
MulMod16(x, y) == (x * (y % 256) + ((x * (y \div 256)) % 256) * 256) % 65536

\* a * b modulo 2^32, as a signed reading (no product exceeds 2^25)
WrapMul(a, b) ==
    LET p0 == Lo16(a) * (Lo16(b) % 256)
        p1 == Lo16(a) * (Lo16(b) \div 256)
        low == p0 + (p1 % 256) * 256
        hi == (low \div 65536) + (p1 \div 256)
                + MulMod16(Hi16(a), Lo16(b)) + MulMod16(Lo16(a), Hi16(b))
    IN  Word(hi % 65536, low % 65536)

\* |x| for x # I32_MIN
Abs(x) == IF x < 0 THEN 0 - x ELSE x

\* i32 multiplication overflows
MulOverflows(a, b) ==
    IF a = 0 \/ b = 0 THEN FALSE
    ELSE IF a = I32_MIN THEN b # 1
    ELSE IF b = I32_MIN THEN a # 1
    ELSE LET q == I32_MAX \div Abs(b)
         IN  IF (a < 0) = (b < 0)
             THEN Abs(a) > q
             ELSE ~ (\/ Abs(a) <= q
                     \/ Abs(a) = q + 1 /\ I32_MAX % Abs(b) = Abs(b) - 1)

\* i32 division (truncating toward zero) for b # 0 and not I32_MIN / -1
TruncDiv(a, b) ==
    IF b = I32_MIN THEN (IF a = I32_MIN THEN 1 ELSE 0)
    ELSE LET q == a \div b
         IN  IF a % Abs(b) # 0 /\ ((a < 0) # (b < 0)) THEN q + 1 ELSE q

\* unsigned a + b carries out of the word (both readings non-negative never do)
UAddOverflows(a, b) ==
    \/ a < 0 /\ b < 0
    \/ (a < 0) # (b < 0) /\ a + b >= 0

\* the wrapped unsigned sum a + b is below the small bound c
USumBelow(a, b, c) ==
    IF a >= 0 /\ b >= 0 THEN a < c /\ b < c /\ a + b < c
    ELSE IF a < 0 /\ b < 0 THEN FALSE
    ELSE a + b >= 0 /\ a + b < c

----------------------------------------------------------------------------
(* Values and instructions (src/isa.rs).  Every value is a record with the *)
(* same two fields, every instruction one with the same four.              *)

Vunit == [tag |-> "Vunit", val |-> 0]

Vi32(i) == [tag |-> "Vi32", val |-> i]

Vbool(b) == [tag |-> "Vbool", val |-> IF b THEN 1 ELSE 0]

Vloc(l) == [tag |-> "Vloc", val |-> l]

Vundef == [tag |-> "Vundef", val |-> 0]

Vsize(n) == [tag |-> "Vsize", val |-> n]

Vaddr(a) == [tag |-> "Vaddr", val |-> a]

\* no value (the payload of a failed Option or Result)
NoVal == [tag |-> "none", val |-> 0]

to_i32(v) == IF v.tag = "Vi32" THEN [some |-> TRUE, val |-> v.val]
             ELSE [some |-> FALSE, val |-> 0]

\* an integer taken for a boolean, non-zero for true
to_bool_mut(v) ==
    IF v.tag \in {"Vbool", "Vi32"}
    THEN [some |-> TRUE, val |-> IF v.val = 0 THEN 0 ELSE 1]
    ELSE [some |-> FALSE, val |-> 0]

to_bool(v) == IF v.tag = "Vbool" THEN [some |-> TRUE, val |-> v.val]
              ELSE [some |-> FALSE, val |-> 0]

to_loc(v) == IF v.tag = "Vloc" THEN [some |-> TRUE, val |-> v.val]
             ELSE [some |-> FALSE, val |-> 0]

to_address(v) == IF v.tag = "Vaddr" THEN [some |-> TRUE, val |-> v.val]
                 ELSE [some |-> FALSE, val |-> 0]

Instr(op, v, n, o) == [op |-> op, v |-> v, n |-> n, o |-> o]

Push(v) == Instr("Push", v, 0, "")

Pop == Instr("Pop", NoVal, 0, "")

Peek(i) == Instr("Peek", NoVal, i, "")

Unary(u) == Instr("Unary", NoVal, 0, u)

Binary(b) == Instr("Binary", NoVal, 0, b)

Swap == Instr("Swap", NoVal, 0, "")

Alloc == Instr("Alloc", NoVal, 0, "")

Set == Instr("Set", NoVal, 0, "")

Get == Instr("Get", NoVal, 0, "")

Var(i) == Instr("Var", NoVal, i, "")

Store(i) == Instr("Store", NoVal, i, "")

SetFrame(i) == Instr("SetFrame", NoVal, i, "")

Call == Instr("Call", NoVal, 0, "")

Ret == Instr("Ret", NoVal, 0, "")

Branch == Instr("Branch", NoVal, 0, "")

Halt == Instr("Halt", NoVal, 0, "")

\* no instruction fetched yet
NoInstr == Instr("none", NoVal, 0, "")

Unops == {"Neg"}

Binops == {"Add", "Mul", "Sub", "Div", "Lt", "Eq"}

----------------------------------------------------------------------------
(* The executor (src/vm.rs) *)

\* what one iteration of exec leaves: the state, and how run ended if it did
Out(st, m, res, p, f, s, h) ==
    [status |-> st, msg |-> m, result |-> res, pc |-> p, fp |-> f,
     stk |-> s, heap |-> h]

Running(p, f, s, h) == Out("running", "", NoVal, p, f, s, h)

Err(m, p, f, s, h) == Out("err", m, NoVal, p, f, s, h)

Panic(m, p, f, s, h) == Out("panic", m, NoVal, p, f, s, h)

\* the capacity check off by one
push_mut(s, v) ==
    IF Len(s) <= STK_SIZE
    THEN [ok |-> TRUE, stk |-> Append(s, v), msg |-> ""]
    ELSE [ok |-> FALSE, stk |-> s, msg |-> "out of stack space"]

push(s, v) ==
    IF Len(s) < STK_SIZE
    THEN [ok |-> TRUE, stk |-> Append(s, v), msg |-> ""]
    ELSE [ok |-> FALSE, stk |-> s, msg |-> "out of stack space"]

pop(s) ==
    IF Len(s) > 0
    THEN [ok |-> TRUE, val |-> s[Len(s)], stk |-> SubSeq(s, 1, Len(s) - 1),
          msg |-> ""]
    ELSE [ok |-> FALSE, val |-> NoVal, stk |-> s,
          msg |-> "attempt to pop empty stack"]

unop(u, v) ==
    LET b == to_bool(v)
    IN  IF ~b.some THEN [kind |-> "err", val |-> NoVal, msg |-> "expected bool"]
        ELSE [kind |-> "ok", val |-> Vbool(b.val = 0), msg |-> ""]

\* the arithmetic of binop on two i32; oc: the build checks for overflow
binop_i32(b, i1, i2, oc) ==
    LET ok(v) == [kind |-> "ok", val |-> v, msg |-> ""]
        panic(m) == [kind |-> "panic", val |-> NoVal, msg |-> m]
    IN  CASE b = "Add" -> IF oc /\ AddOverflows(i1, i2)
                          THEN panic("attempt to add with overflow")
                          ELSE ok(Vi32(WrapAdd(i1, i2)))
          [] b = "Mul" -> IF oc /\ MulOverflows(i1, i2)
                          THEN panic("attempt to multiply with overflow")
                          ELSE ok(Vi32(WrapMul(i1, i2)))
          [] b = "Sub" -> IF oc /\ SubOverflows(i1, i2)
                          THEN panic("attempt to subtract with overflow")
                          ELSE ok(Vi32(WrapSub(i1, i2)))
          [] b = "Div" -> IF i2 = 0
                          THEN panic("attempt to divide by zero")
                          ELSE IF i1 = I32_MIN /\ i2 = -1
                          THEN panic("attempt to divide with overflow")
                          ELSE ok(Vi32(TruncDiv(i1, i2)))
          [] b = "Lt" -> ok(Vbool(i1 <= i2))
          [] b = "Eq" -> ok(Vbool(i1 = i2))

binop(b, v1, v2, oc) ==
    LET i1 == to_i32(v1)
        i2 == to_i32(v2)
    IN  IF ~i1.some \/ ~i2.some
        THEN [kind |-> "err", val |-> NoVal, msg |-> "expected i32"]
        ELSE binop_i32(b, i1.val, i2.val, oc)

\* x as usize indexes a vector of length n
InRange(x, n) == x >= 0 /\ x < n

ExecPush(v, p, f, s, h) ==
    LET r == push(s, v)
    IN  IF r.ok THEN Running(p, f, r.stk, h) ELSE Err(r.msg, p, f, s, h)

ExecPop(p, f, s, h) ==
    LET r == pop(s)
    IN  IF r.ok THEN Running(p, f, r.stk, h) ELSE Err(r.msg, p, f, s, h)

\* the stack position Peek(i) reads
PeekIndex(i, s) == i

ExecPeek(i, p, f, s, h) ==
    LET ix == PeekIndex(i, s)
    IN  IF ~InRange(ix, Len(s))
        THEN Panic("index out of bounds", p, f, s, h)
        ELSE LET r == push(s, s[ix + 1])
             IN  IF r.ok THEN Running(p, f, r.stk, h)
                 ELSE Err(r.msg, p, f, s, h)

ExecUnary(u, p, f, s, h) ==
    LET r == pop(s)
    IN  IF ~r.ok THEN Err(r.msg, p, f, s, h)
        ELSE LET i == unop(u, r.val)
             IN  IF i.kind = "err" THEN Err(i.msg, p, f, r.stk, h)
                 ELSE Running(p, f, Append(r.stk, i.val), h)

\* the operands handed to binop the other way round
ExecBinary_mut(b, oc, p, f, s, h) ==
    LET r1 == pop(s)
        r2 == pop(r1.stk)
    IN  IF ~r1.ok THEN Err(r1.msg, p, f, s, h)
        ELSE IF ~r2.ok THEN Err(r2.msg, p, f, r1.stk, h)
        ELSE LET i == binop(b, r2.val, r1.val, oc)
             IN  CASE i.kind = "err" -> Err(i.msg, p, f, r2.stk, h)
                   [] i.kind = "panic" -> Panic(i.msg, p, f, r2.stk, h)
                   [] i.kind = "ok" -> Running(p, f, Append(r2.stk, i.val), h)

ExecBinary(b, oc, p, f, s, h) ==
    LET r1 == pop(s)
        r2 == pop(r1.stk)
    IN  IF ~r1.ok THEN Err(r1.msg, p, f, s, h)
        ELSE IF ~r2.ok THEN Err(r2.msg, p, f, r1.stk, h)
        ELSE LET i == binop(b, r1.val, r2.val, oc)
             IN  CASE i.kind = "err" -> Err(i.msg, p, f, r2.stk, h)
                   [] i.kind = "panic" -> Panic(i.msg, p, f, r2.stk, h)
                   [] i.kind = "ok" -> Running(p, f, Append(r2.stk, i.val), h)

ExecSwap(p, f, s, h) ==
    LET r2 == pop(s)
        r1 == pop(r2.stk)
    IN  IF ~r2.ok THEN Err(r2.msg, p, f, s, h)
        ELSE IF ~r1.ok THEN Err(r1.msg, p, f, r2.stk, h)
        ELSE Running(p, f, Append(Append(r1.stk, r2.val), r1.val), h)

\* the size marker's slot left out of the sum
AllocFits_mut(len, size) == USumBelow(len, size, HEAP_SIZE)

\* s.heap.len() + size + 1 < HEAP_SIZE, on the wrapped sum
AllocFits(len, size) == USumBelow(len + 1, size, HEAP_SIZE)

\* one slot short
Repeat_mut(vinit, size) == [k \in 1..(size - 1) |-> vinit]

\* vec![vinit; size]
Repeat(vinit, size) == [k \in 1..size |-> vinit]

ExecAlloc(oc, p, f, s, h) ==
    LET r1 == pop(s)
        r2 == pop(r1.stk)
        size == to_i32(r2.val)
    IN  IF ~r1.ok THEN Err(r1.msg, p, f, s, h)
        ELSE IF ~r2.ok THEN Err(r2.msg, p, f, r1.stk, h)
        ELSE IF ~size.some THEN Err("expected i32", p, f, r2.stk, h)
        ELSE IF oc /\ UAddOverflows(Len(h) + 1, size.val)
        THEN Panic("attempt to add with overflow", p, f, r2.stk, h)
        ELSE IF ~AllocFits(Len(h), size.val)
        THEN Err("out of heap space", p, f, r2.stk, h)
        ELSE IF size.val < 0
        THEN Panic("capacity overflow", p, f, r2.stk,
                   Append(h, Vsize(size.val)))
        ELSE Running(p, f, Append(r2.stk, Vaddr(Len(h))),
                     Append(h, Vsize(size.val)) \o Repeat(r1.val, size.val))

\* ix < size, the bound check of Set and Get against the size marker
IndexInArray_mut(ix, size) == ~ULt(size, ix)

IndexInArray(ix, size) == ULt(ix, size)

\* how the checks of Set and Get end for index ix and base address base:
\* "ok" with the heap slot to use, or the error or the panic
ArrayIndex(ix, base, oc, h) ==
    LET res(k, m, i) == [kind |-> k, msg |-> m, slot |-> i]
    IN  IF oc /\ UAddOverflows(base, ix)
        THEN res("panic", "attempt to add with overflow", 0)
        ELSE IF ~USumBelow(base, ix, HEAP_SIZE)
        THEN res("err", "indexing past end of heap", 0)
        ELSE IF ~InRange(base, Len(h))
        THEN res("panic", "index out of bounds", 0)
        ELSE IF h[base + 1].tag # "Vsize"
        THEN res("err", "expected size at array location", 0)
        ELSE IF ~IndexInArray(ix, h[base + 1].val)
        THEN res("err", "index past end of array", 0)
        ELSE IF ~InRange(base + ix + 1, Len(h))
        THEN res("panic", "index out of bounds", 0)
        ELSE res("ok", "", base + ix + 1)

ExecSet(oc, p, f, s, h) ==
    LET r1 == pop(s)
        r2 == pop(r1.stk)
        r3 == pop(r2.stk)
        ix == to_i32(r2.val)
        base == to_address(r3.val)
    IN  IF ~r1.ok THEN Err(r1.msg, p, f, s, h)
        ELSE IF ~r2.ok THEN Err(r2.msg, p, f, r1.stk, h)
        ELSE IF ~r3.ok THEN Err(r3.msg, p, f, r2.stk, h)
        ELSE IF ~ix.some THEN Err("expected i32", p, f, r3.stk, h)
        ELSE IF ~base.some THEN Err("expected address", p, f, r3.stk, h)
        ELSE LET a == ArrayIndex(ix.val, base.val, oc, h)
             IN  CASE a.kind = "panic" -> Panic(a.msg, p, f, r3.stk, h)
                   [] a.kind = "err" -> Err(a.msg, p, f, r3.stk, h)
                   [] a.kind = "ok" ->
                        Running(p, f, r3.stk,
                                [h EXCEPT ![a.slot + 1] = r1.val])

ExecGet(oc, p, f, s, h) ==
    LET r1 == pop(s)
        r2 == pop(r1.stk)
        ix == to_i32(r1.val)
        base == to_address(r2.val)
    IN  IF ~r1.ok THEN Err(r1.msg, p, f, s, h)
        ELSE IF ~r2.ok THEN Err(r2.msg, p, f, r1.stk, h)
        ELSE IF ~ix.some THEN Err("expected i32", p, f, r2.stk, h)
        ELSE IF ~base.some THEN Err("expected address", p, f, r2.stk, h)
        ELSE LET a == ArrayIndex(ix.val, base.val, oc, h)
             IN  CASE a.kind = "panic" -> Panic(a.msg, p, f, r2.stk, h)
                   [] a.kind = "err" -> Err(a.msg, p, f, r2.stk, h)
                   [] a.kind = "ok" ->
                        LET r == push(r2.stk, h[a.slot + 1])
                        IN  IF r.ok THEN Running(p, f, r.stk, h)
                            ELSE Err(r.msg, p, f, r2.stk, h)

ExecVar(i, oc, p, f, s, h) ==
    LET ix == WrapAdd(f, i)
    IN  IF oc /\ UAddOverflows(f, i)
        THEN Panic("attempt to add with overflow", p, f, s, h)
        ELSE IF ~InRange(ix, Len(s))
        THEN Err("variable access past end of stack", p, f, s, h)
        ELSE LET r == push(s, s[ix + 1])
             IN  IF r.ok THEN Running(p, f, r.stk, h)
                 ELSE Err(r.msg, p, f, s, h)

ExecStore(i, oc, p, f, s, h) ==
    LET ix == WrapAdd(f, i)
        r == pop(s)
    IN  IF oc /\ UAddOverflows(f, i)
        THEN Panic("attempt to add with overflow", p, f, s, h)
        ELSE IF ~r.ok THEN Err(r.msg, p, f, s, h)
        ELSE IF ~InRange(ix, Len(r.stk))
        THEN Err("store past end of stack", p, f, r.stk, h)
        ELSE Running(p, f, [r.stk EXCEPT ![ix + 1] = r.val], h)

\* the frame base one above instead of one below
FrameBase_mut(len, i) == WrapAdd(WrapSub(len, i), 1)

\* s.stk.len() as u32 - i - 1
FrameBase(len, i) == WrapSub(WrapSub(len, i), 1)

ExecSetFrame(i, oc, p, f, s, h) ==
    LET r == push(s, Vloc(f))
    IN  IF ~r.ok THEN Err(r.msg, p, f, s, h)
        ELSE IF oc /\ (ULt(Len(r.stk), i) \/ Len(r.stk) = i)
        THEN Panic("attempt to subtract with overflow", p, f, r.stk, h)
        ELSE Running(p, FrameBase(Len(r.stk), i), r.stk, h)

\* the address of the call itself is saved
ExecCall_mut(p, f, s, h) ==
    LET r == pop(s)
    IN  IF ~r.ok THEN Err(r.msg, p, f, s, h)
        ELSE IF r.val.tag # "Vloc"
        THEN Err("expected loc for call target", p, f, r.stk, h)
        ELSE Running(r.val.val, f, Append(r.stk, Vloc(p - 1)), h)

ExecCall(p, f, s, h) ==
    LET r == pop(s)
    IN  IF ~r.ok THEN Err(r.msg, p, f, s, h)
        ELSE IF r.val.tag # "Vloc"
        THEN Err("expected loc for call target", p, f, r.stk, h)
        ELSE Running(r.val.val, f, Append(r.stk, Vloc(p)), h)

\* nothing discarded
Truncate_mut(s, n) == s

\* s.stk.truncate(n as usize)
Truncate(s, n) == IF InRange(n, Len(s)) THEN SubSeq(s, 1, n) ELSE s

\* the two saved locations restored the wrong way round
ExecRet_mut(p, f, s, h) ==
    LET r1 == pop(s)
        r2 == pop(r1.stk)
        r3 == pop(r2.stk)
    IN  IF ~r1.ok THEN Err(r1.msg, p, f, s, h)
        ELSE IF ~r2.ok THEN Err(r2.msg, p, f, r1.stk, h)
        ELSE IF ~r3.ok THEN Err(r3.msg, p, f, r2.stk, h)
        ELSE IF r2.val.tag # "Vloc" \/ r3.val.tag # "Vloc"
        THEN Err("expected location for pc and fp in return", p, f, r3.stk, h)
        ELSE Running(r3.val.val, r2.val.val,
                     Append(Truncate(r3.stk, f), r1.val), h)

ExecRet(p, f, s, h) ==
    LET r1 == pop(s)
        r2 == pop(r1.stk)
        r3 == pop(r2.stk)
    IN  IF ~r1.ok THEN Err(r1.msg, p, f, s, h)
        ELSE IF ~r2.ok THEN Err(r2.msg, p, f, r1.stk, h)
        ELSE IF ~r3.ok THEN Err(r3.msg, p, f, r2.stk, h)
        ELSE IF r2.val.tag # "Vloc" \/ r3.val.tag # "Vloc"
        THEN Err("expected location for pc and fp in return", p, f, r3.stk, h)
        ELSE Running(r2.val.val, r3.val.val,
                     Append(Truncate(r3.stk, f), r1.val), h)

ExecBranch(p, f, s, h) ==
    LET r1 == pop(s)
        r2 == pop(r1.stk)
        target == to_loc(r1.val)
        b == to_bool(r2.val)
    IN  IF ~r1.ok THEN Err(r1.msg, p, f, s, h)
        ELSE IF ~r2.ok THEN Err(r2.msg, p, f, r1.stk, h)
        ELSE IF ~target.some THEN Err("expected location", p, f, r2.stk, h)
        ELSE IF ~b.some THEN Err("expected bool", p, f, r2.stk, h)
        ELSE Running(IF b.val = 1 THEN target.val ELSE p, f, r2.stk, h)

\* a run that refuses a stack of more than one value at halt
ExecHalt_mut(p, f, s, h) ==
    LET r == pop(s)
    IN  IF r.ok /\ Len(s) = 1 THEN Out("ok", "", r.val, p, f, r.stk, h)
        ELSE IF r.ok THEN Err("more than one value at halt", p, f, s, h)
        ELSE Err(r.msg, p, f, s, h)

\* Halt returns Ok(()) from exec, and run pops the result
ExecHalt(p, f, s, h) ==
    LET r == pop(s)
    IN  IF r.ok THEN Out("ok", "", r.val, p, f, r.stk, h)
        ELSE Err(r.msg, p, f, s, h)

----------------------------------------------------------------------------
(* The bytecode codec (src/isa.rs).  A byte is an integer in 0..255; a     *)
(* decoder takes the bytes left in the iterator and returns what it read   *)
(* and the bytes it left.                                                  *)

\* u32::to_bytes and i32::to_bytes: four bytes, big-endian
U32ToBytes(x) ==
    LET y == IF x < 0 THEN x - I32_MIN ELSE x
        top == IF x < 0 THEN 128 ELSE 0
    IN  <<top + (y \div 16777216), (y \div 65536) % 256, (y \div 256) % 256,
          y % 256>>

UnopToBytes(u) == CASE u = "Neg" -> <<0>>

BinopToBytes(b) ==
    CASE b = "Add" -> <<0>>
      [] b = "Mul" -> <<1>>
      [] b = "Sub" -> <<2>>
      [] b = "Div" -> <<3>>
      [] b = "Lt" -> <<4>>
      [] b = "Eq" -> <<5>>

\* Val::to_bytes panics on Vsize and Vaddr
ValEncodable(v) == v.tag \notin {"Vsize", "Vaddr"}

ValToBytes(v) ==
    CASE v.tag = "Vunit" -> <<0>>
      [] v.tag = "Vi32" -> <<1>> \o U32ToBytes(v.val)
      [] v.tag = "Vbool" -> IF v.val = 1 THEN <<2>> ELSE <<3>>
      [] v.tag = "Vloc" -> <<4>> \o U32ToBytes(v.val)
      [] v.tag = "Vundef" -> <<5>>

InstrToBytes(i) ==
    CASE i.op = "Push" -> <<0>> \o ValToBytes(i.v)
      [] i.op = "Pop" -> <<1>>
      [] i.op = "Peek" -> <<2>> \o U32ToBytes(i.n)
      [] i.op = "Unary" -> <<3>> \o UnopToBytes(i.o)
      [] i.op = "Binary" -> <<4>> \o BinopToBytes(i.o)
      [] i.op = "Swap" -> <<5>>
      [] i.op = "Alloc" -> <<6>>
      [] i.op = "Get" -> <<7>>
      [] i.op = "Set" -> <<8>>
      [] i.op = "Var" -> <<9>> \o U32ToBytes(i.n)
      [] i.op = "Store" -> <<10>> \o U32ToBytes(i.n)
      [] i.op = "SetFrame" -> <<11>> \o U32ToBytes(i.n)
      [] i.op = "Call" -> <<12>>
      [] i.op = "Ret" -> <<13>>
      [] i.op = "Branch" -> <<14>>
      [] i.op = "Halt" -> <<15>>

\* the instructions of q from position k on, each through to_bytes
RECURSIVE ConcatBytes(_, _)
ConcatBytes(q, k) ==
    IF k > Len(q) THEN <<>> ELSE InstrToBytes(q[k]) \o ConcatBytes(q, k + 1)

\* the binary program format: the instruction count, then the instructions
EncodeProgram(q) == U32ToBytes(Len(q)) \o ConcatBytes(q, 1)

\* what a decoder returns: Ok(val) or Err(ParseError(msg)), and the bytes left
Parsed(v, rest) == [ok |-> TRUE, val |-> v, msg |-> "", rest |-> rest]

ParseError(m, rest) == [ok |-> FALSE, val |-> NoVal, msg |-> m, rest |-> rest]

\* BigEndian::read_u32 and read_i32 of four bytes
ReadWord(b) ==
    LET low == b[2] * 65536 + b[3] * 256 + b[4]
    IN  IF b[1] >= 128 THEN I32_MIN + ((b[1] - 128) * 16777216 + low)
        ELSE b[1] * 16777216 + low

\* a short rest read as a word, the missing low bytes taken as zero
U32FromBytes_mut(bs) ==
    LET b == [k \in 1..4 |-> IF k <= Len(bs) THEN bs[k] ELSE 0]
    IN  [ok |-> TRUE, val |-> ReadWord(b), msg |-> "",
         rest |-> IF Len(bs) >= 4 THEN SubSeq(bs, 5, Len(bs)) ELSE <<>>]

\* u32::from_bytes and i32::from_bytes: take(4) drains a shorter rest
U32FromBytes(bs) ==
    IF Len(bs) >= 4
    THEN [ok |-> TRUE, val |-> ReadWord(SubSeq(bs, 1, 4)), msg |-> "",
          rest |-> SubSeq(bs, 5, Len(bs))]
    ELSE [ok |-> FALSE, val |-> 0, msg |-> "not enough bytes", rest |-> <<>>]

\* the only unary operator returned whatever the byte
UnopFromBytes_mut(bs) ==
    IF Len(bs) = 0 THEN [ok |-> FALSE, val |-> "", msg |-> "not enough bytes",
                         rest |-> bs]
    ELSE [ok |-> TRUE, val |-> "Neg", msg |-> "", rest |-> Tail(bs)]

UnopFromBytes(bs) ==
    IF Len(bs) = 0 THEN [ok |-> FALSE, val |-> "", msg |-> "not enough bytes",
                         rest |-> bs]
    ELSE IF bs[1] = 0 THEN [ok |-> TRUE, val |-> "Neg", msg |-> "",
                            rest |-> Tail(bs)]
    ELSE [ok |-> FALSE, val |-> "", msg |-> "unknown unop code",
          rest |-> Tail(bs)]

BinopFromBytes(bs) ==
    LET some(b) == [ok |-> TRUE, val |-> b, msg |-> "", rest |-> Tail(bs)]
    IN  IF Len(bs) = 0
        THEN [ok |-> FALSE, val |-> "", msg |-> "not enough bytes",
              rest |-> bs]
        ELSE CASE bs[1] = 0 -> some("Add")
               [] bs[1] = 1 -> some("Mul")
               [] bs[1] = 2 -> some("Sub")
               [] bs[1] = 3 -> some("Div")
               [] bs[1] = 4 -> some("Lt")
               [] bs[1] = 5 -> some("Eq")
               [] OTHER -> [ok |-> FALSE, val |-> "",
                            msg |-> "unknown binop code", rest |-> Tail(bs)]

ValFromBytes(bs) ==
    LET w == U32FromBytes(Tail(bs))
    IN  IF Len(bs) = 0 THEN ParseError("not enough bytes", bs)
        ELSE CASE bs[1] = 0 -> Parsed(Vunit, Tail(bs))
               [] bs[1] = 1 -> IF w.ok THEN Parsed(Vi32(w.val), w.rest)
                               ELSE ParseError(w.msg, w.rest)
               [] bs[1] = 2 -> Parsed(Vbool(TRUE), Tail(bs))
               [] bs[1] = 3 -> Parsed(Vbool(FALSE), Tail(bs))
               [] bs[1] = 4 -> IF w.ok THEN Parsed(Vloc(w.val), w.rest)
                               ELSE ParseError(w.msg, w.rest)
               [] bs[1] = 5 -> Parsed(Vundef, Tail(bs))
               [] OTHER -> ParseError("unknown val code", Tail(bs))

\* the instruction the decoder builds for an opcode byte without operand
OpcodeOf(byte) ==
    CASE byte = 1 -> Pop
      [] byte = 5 -> Swap
      [] byte = 6 -> Alloc
      [] byte = 7 -> Set
      [] byte = 8 -> Get
      [] byte = 12 -> Call
      [] byte = 13 -> Ret
      [] byte = 14 -> Branch
      [] byte = 15 -> Halt

InstrFromBytes(bs) ==
    LET v == ValFromBytes(Tail(bs))
        w == U32FromBytes(Tail(bs))
        u == UnopFromBytes(Tail(bs))
        b == BinopFromBytes(Tail(bs))
        word(mk(_)) == IF w.ok THEN Parsed(mk(w.val), w.rest)
                       ELSE ParseError(w.msg, w.rest)
    IN  IF Len(bs) = 0 THEN ParseError("not enough bytes", bs)
        ELSE CASE bs[1] = 0 -> IF v.ok THEN Parsed(Push(v.val), v.rest)
                               ELSE ParseError(v.msg, v.rest)
               [] bs[1] = 2 -> word(Peek)
               [] bs[1] = 3 -> IF u.ok THEN Parsed(Unary(u.val), u.rest)
                               ELSE ParseError(u.msg, u.rest)
               [] bs[1] = 4 -> IF b.ok THEN Parsed(Binary(b.val), b.rest)
                               ELSE ParseError(b.msg, b.rest)
               [] bs[1] = 9 -> word(Var)
               [] bs[1] = 10 -> word(Store)
               [] bs[1] = 11 -> word(SetFrame)
               [] bs[1] \in {1, 5, 6, 7, 8, 12, 13, 14, 15} ->
                    Parsed(OpcodeOf(bs[1]), Tail(bs))
               [] OTHER -> ParseError("unknown instr code", Tail(bs))

\* the loop of Vec<Instr>::from_bytes: n more instructions after those in acc
\* (n counts down through the words, so a count with the top bit set is large)
RECURSIVE DecodeInstrs(_, _, _)
DecodeInstrs(bs, n, acc) ==
    IF n = 0 THEN [ok |-> TRUE, msg |-> "", prog |-> acc]
    ELSE LET i == InstrFromBytes(bs)
         IN  IF ~i.ok THEN [ok |-> FALSE, msg |-> i.msg, prog |-> <<>>]
             ELSE DecodeInstrs(i.rest, WrapSub(n, 1), Append(acc, i.val))

\* Vec<Instr>::from_bytes
ProgFromBytes(bs) ==
    LET n == U32FromBytes(bs)
    IN  IF ~n.ok THEN [ok |-> FALSE, msg |-> n.msg, prog |-> <<>>]
        ELSE DecodeInstrs(n.rest, n.val, <<>>)

----------------------------------------------------------------------------
(* FromStr: a line is the sequence of its tokens (split_whitespace), a token
   the sequence of its characters *)

\* the tokens the parsers match on
Tok ==
    [push |-> <<"p", "u", "s", "h">>,
     pop |-> <<"p", "o", "p">>,
     peek |-> <<"p", "e", "e", "k">>,
     unary |-> <<"u", "n", "a", "r", "y">>,
     binary |-> <<"b", "i", "n", "a", "r", "y">>,
     swap |-> <<"s", "w", "a", "p">>,
     alloc |-> <<"a", "l", "l", "o", "c">>,
     get |-> <<"g", "e", "t">>,
     set |-> <<"s", "e", "t">>,
     var |-> <<"v", "a", "r">>,
     store |-> <<"s", "t", "o", "r", "e">>,
     setframe |-> <<"s", "e", "t", "f", "r", "a", "m", "e">>,
     call |-> <<"c", "a", "l", "l">>,
     ret |-> <<"r", "e", "t">>,
     branch |-> <<"b", "r", "a", "n", "c", "h">>,
     halt |-> <<"h", "a", "l", "t">>,
     neg |-> <<"n", "e", "g">>,
     tt |-> <<"t", "t">>,
     true |-> <<"t", "r", "u", "e">>,
     false |-> <<"f", "a", "l", "s", "e">>,
     undef |-> <<"u", "n", "d", "e", "f">>,
     add |-> <<"+">>,
     mul |-> <<"*">>,
     sub |-> <<"-">>,
     div |-> <<"/">>,
     lt |-> <<"<">>,
     eq |-> <<"=", "=">>]

Digits == {"0", "1", "2", "3", "4", "5", "6", "7", "8", "9"}

DigitOf(ch) ==
    CASE ch = "0" -> 0 [] ch = "1" -> 1 [] ch = "2" -> 2 [] ch = "3" -> 3
      [] ch = "4" -> 4 [] ch = "5" -> 5 [] ch = "6" -> 6 [] ch = "7" -> 7
      [] ch = "8" -> 8 [] ch = "9" -> 9

\* [a-zA-Z0-9]
Alnum ==
    Digits \cup
    {"a", "b", "c", "d", "e", "f", "g", "h", "i", "j", "k", "l", "m",
     "n", "o", "p", "q", "r", "s", "t", "u", "v", "w", "x", "y", "z",
     "A", "B", "C", "D", "E", "F", "G", "H", "I", "J", "K", "L", "M",
     "N", "O", "P", "Q", "R", "S", "T", "U", "V", "W", "X", "Y", "Z"}

RECURSIVE StripZeros(_)
StripZeros(ds) ==
    IF Len(ds) > 1 /\ ds[1] = "0" THEN StripZeros(Tail(ds)) ELSE ds

\* the number written by at most nine digits
RECURSIVE Num(_)
Num(ds) ==
    IF Len(ds) = 0 THEN 0
    ELSE 10 * Num(SubSeq(ds, 1, Len(ds) - 1)) + DigitOf(ds[Len(ds)])

\* str::parse::<i32>() (signed) and str::parse::<u32>(): an optional sign
\* ("-" for i32 only), then decimal digits, within the range of the type
ParseInt(tok, signed) ==
    LET neg == signed /\ Len(tok) >= 1 /\ tok[1] = "-"
        ds == IF Len(tok) >= 1 /\ (tok[1] = "+" \/ neg) THEN Tail(tok)
              ELSE tok
        sig == StripZeros(ds)
        n9 == Num(SubSeq(sig, 1, IF Len(sig) < 9 THEN Len(sig) ELSE 9))
        d == DigitOf(sig[10])
        lim10 == IF signed THEN 214748364 ELSE 429496729
        limd == IF ~signed THEN 5 ELSE IF neg THEN 8 ELSE 7
        top == n9 > 214748364 \/ (n9 = 214748364 /\ d > 7)
        some(n) == [ok |-> TRUE, val |-> n]
        none == [ok |-> FALSE, val |-> 0]
    IN  IF ds = <<>> \/ \E k \in 1..Len(ds) : ds[k] \notin Digits THEN none
        ELSE IF Len(sig) <= 9 THEN some(IF neg THEN 0 - n9 ELSE n9)
        ELSE IF Len(sig) > 10 \/ n9 > lim10 \/ (n9 = lim10 /\ d > limd)
        THEN none
        ELSE IF neg THEN some(0 - 10 * n9 - d)
        ELSE IF ~top THEN some(10 * n9 + d)
        ELSE some(I32_MIN + (10 * (n9 - 214748365) + (d + 2)))

\* what from_str returns: Ok(instr), Err(ParseError), or a panic in unwrap()
ParsedInstr(i) == [kind |-> "ok", instr |-> i]

ParseFailed == [kind |-> "err", instr |-> NoInstr]

ParsePanic == [kind |-> "panic", instr |-> NoInstr]

unop_from_str(tok) ==
    IF tok = Tok.neg THEN ParsedInstr(Unary("Neg")) ELSE ParseFailed

binop_from_str(tok) ==
    CASE tok = Tok.add -> ParsedInstr(Binary("Add"))
      [] tok = Tok.mul -> ParsedInstr(Binary("Mul"))
      [] tok = Tok.sub -> ParsedInstr(Binary("Sub"))
      [] tok = Tok.div -> ParsedInstr(Binary("Div"))
      [] tok = Tok.lt -> ParsedInstr(Binary("Lt"))
      [] tok = Tok.eq -> ParsedInstr(Binary("Eq"))
      [] OTHER -> ParseFailed

val_from_str(tok) ==
    LET n == ParseInt(tok, TRUE)
    IN  CASE tok = Tok.tt -> ParsedInstr(Push(Vunit))
          [] tok = Tok.true -> ParsedInstr(Push(Vbool(TRUE)))
          [] tok = Tok.false -> ParsedInstr(Push(Vbool(FALSE)))
          [] tok = Tok.undef -> ParsedInstr(Push(Vundef))
          [] OTHER -> IF n.ok THEN ParsedInstr(Push(Vi32(n.val)))
                      ELSE ParseFailed

\* Instr::from_str
instr_from_str(l) ==
    LET tok == l[1]
        tok2 == l[2]
        n == ParseInt(tok2, FALSE)
        operand(r) == IF Len(l) < 2 THEN ParsePanic ELSE r
        word(mk(_)) ==
            operand(IF n.ok THEN ParsedInstr(mk(n.val)) ELSE ParseFailed)
    IN  IF Len(l) = 0 THEN ParseFailed
        ELSE CASE tok = Tok.push -> operand(val_from_str(tok2))
               [] tok = Tok.pop -> ParsedInstr(Pop)
               [] tok = Tok.peek -> word(Peek)
               [] tok = Tok.unary -> operand(unop_from_str(tok2))
               [] tok = Tok.binary -> operand(binop_from_str(tok2))
               [] tok = Tok.swap -> ParsedInstr(Swap)
               [] tok = Tok.alloc -> ParsedInstr(Alloc)
               [] tok = Tok.get -> ParsedInstr(Set)
               [] tok = Tok.set -> ParsedInstr(Get)
               [] tok = Tok.var -> word(Var)
               [] tok = Tok.store -> word(Store)
               [] tok = Tok.setframe -> word(SetFrame)
               [] tok = Tok.call -> ParsedInstr(Call)
               [] tok = Tok.ret -> ParsedInstr(Ret)
               [] tok = Tok.branch -> ParsedInstr(Branch)
               [] tok = Tok.halt -> ParsedInstr(Halt)
               [] OTHER -> ParseFailed

\* the regex (L[a-zA-Z0-9]+)|(_L[a-zA-Z0-9]+) matches somewhere in tok
parse_label(tok) ==
    \E k \in 1..(Len(tok) - 1) : tok[k] = "L" /\ tok[k + 1] \in Alnum

\* pseudo-instructions
PLabel(lbl) == [p |-> "PLabel", label |-> lbl, instr |-> NoInstr]

PPush(lbl) == [p |-> "PPush", label |-> lbl, instr |-> NoInstr]

PI(i) == [p |-> "PI", label |-> <<>>, instr |-> i]

\* PInstr::from_str: Ok(pinstr), Err(ParseError), or a panic in unwrap()
pinstr_from_str(l) ==
    LET tok == l[1]
        lbl == SubSeq(tok, 1, Len(tok) - 1)
        i == instr_from_str(l)
        native == [kind |-> i.kind,
                   pinstr |-> IF i.kind = "ok" THEN PI(i.instr) ELSE PI(NoInstr)]
        some(q) == [kind |-> "ok", pinstr |-> q]
        failed == [kind |-> "err", pinstr |-> PI(NoInstr)]
    IN  IF Len(l) = 0 THEN failed
        ELSE IF tok = Tok.push
        THEN IF Len(l) < 2 THEN [kind |-> "panic", pinstr |-> PI(NoInstr)]
             ELSE IF parse_label(l[2]) THEN some(PPush(l[2]))
             ELSE native
        ELSE IF Len(tok) >= 1 /\ tok[Len(tok)] = ":"
        THEN IF parse_label(lbl) THEN some(PLabel(lbl)) ELSE failed
        ELSE native

\* assemble: unimplemented!() panics whatever the program
assemble(q) == [kind |-> "panic", prog |-> <<>>]

----------------------------------------------------------------------------
(* The programs and byte streams the model runs *)

MaxOperand == 2

MaxDepth == 3

MaxPrefix == 2

MaxCodecLen == 2

MaxArray == 2

RecentLen == 5

MaxAsmLen == 5

\* the u32 operands of Peek, Var, Store, SetFrame and Vloc
U32Operands == 0..MaxOperand

\* the i32 operands of Push
I32Operands == {-1, 0, 1, 2, I32_MAX, I32_MIN}

\* the values a decodable program can push
ProgVals ==
    {Vunit, Vundef, Vbool(TRUE), Vbool(FALSE)}
        \cup {Vi32(i) : i \in I32Operands} \cup {Vloc(l) : l \in U32Operands}

Instrs ==
    {Push(v) : v \in ProgVals}
        \cup {Peek(i) : i \in U32Operands} \cup {Var(i) : i \in U32Operands}
        \cup {Store(i) : i \in U32Operands}
        \cup {SetFrame(i) : i \in U32Operands}
        \cup {Unary(u) : u \in Unops} \cup {Binary(b) : b \in Binops}
        \cup {Pop, Swap, Alloc, Set, Get, Call, Ret, Branch, Halt}

\* all sequences over S of length at most n
SeqsUpTo(S, n) == UNION {[1..k -> S] : k \in 0..n}

\* k pushes of distinct integers 1..k
Pushes(k) == [j \in 1..k |-> Push(Vi32(j))]

\* a few values on the stack, then one instruction, with and without a halt
\* (the location is that of the halt after the longest prefix)
PrefixVals == {Vi32(1), Vi32(2), Vbool(TRUE), Vloc(MaxPrefix + 1)}

OneInstrPrograms ==
    LET pres == {[j \in 1..Len(q) |-> Push(q[j])] :
                    q \in SeqsUpTo(PrefixVals, MaxPrefix)}
    IN  pres \cup {q \o <<i>> : q \in pres, i \in Instrs}
             \cup {q \o <<i, Halt>> : q \in pres, i \in Instrs}

\* push a; push b; binary o; halt
ArithVals == {Vi32(i) : i \in I32Operands \cup {3, 4}} \cup {Vbool(TRUE)}

ArithPrograms ==
    {<<Push(a), Push(b), Binary(o), Halt>> :
        a \in ArithVals, b \in ArithVals, o \in Binops}

\* a frame set up at some depth, then pops below it
FramePrograms ==
    {Pushes(k) \o <<SetFrame(i)>> \o [j \in 1..n |-> Pop] \o <<Halt>> :
        k \in 0..MaxDepth, i \in U32Operands, n \in 0..MaxDepth}

\* two allocations, small ones and ones at the edge of the heap
AllocSizes ==
    {0, 1, MaxArray, HEAP_SIZE - 3, HEAP_SIZE - 2, HEAP_SIZE - 1, HEAP_SIZE,
     -1, -2, I32_MAX, I32_MIN}

AllocPrograms ==
    {<<Push(Vi32(s1)), Push(Vunit), Alloc,
       Push(Vi32(s2)), Push(v), Alloc, Halt>> :
        s1 \in AllocSizes, s2 \in AllocSizes, v \in {Vi32(9), Vbool(TRUE)}}

\* two arrays, a write to one and a read of one
ArrayIndexes == (-1..(MaxArray + 1)) \cup {I32_MAX}

ArrayPrograms ==
    {<<Push(Vi32(s0)), Push(Vunit), Alloc, Push(Vi32(s1)), Push(Vi32(0)),
       Alloc, Var(b1), Push(Vi32(i1)), Push(Vi32(7)), Set,
       Var(b2), Push(Vi32(i2)), Get, Halt>> :
        s0 \in {0, MaxArray}, s1 \in 0..MaxArray, b1 \in {0, 1},
        b2 \in {0, 1},
        i1 \in ArrayIndexes, i2 \in ArrayIndexes}

\* an array whose slots hold the address of another array: the address is
\* read back from the heap and used as the base of a write
NestedPrograms ==
    {<<Push(Vi32(s0)), Push(Vunit), Alloc, Push(Vi32(s1)), Var(0), Alloc,
       Var(1), Push(Vi32(i1)), Get, Push(Vi32(i2)), Var(1), Set, Halt>> :
        s0 \in 0..MaxArray, s1 \in 0..MaxArray,
        i1 \in -1..MaxArray, i2 \in -1..MaxArray}

\* loops that grow the stack (and the heap) until it is full
LoopBodies ==
    {<<Unary("Neg")>>, <<Var(0)>>, <<Push(Vi32(0)), Swap, Alloc>>}

LoopPrograms ==
    {<<Push(Vbool(TRUE))>> \o b
        \o <<Push(Vbool(TRUE)), Push(Vloc(0)), Branch>> : b \in LoopBodies}

\* STK_SIZE pushes, then one instruction that needs one more slot
FullStackPrograms ==
    {[k \in 1..STK_SIZE |-> Push(Vunit)] \o <<i>> :
        i \in {Push(Vunit), Peek(0), Var(0), SetFrame(0)}}

\* the caller's code before a call: optionally inside a frame, k values pushed
Prelude(framed, k) ==
    (IF framed THEN <<Push(Vi32(7)), SetFrame(0)>> ELSE <<>>) \o Pushes(k)

\* call a subroutine that sets up its frame itself and returns 5
CalleeFramePrograms ==
    {LET pre == Prelude(framed, k)
     IN  pre \o <<Push(Vloc(Len(pre) + 3)), Call, Halt,
                  SetFrame(i), Push(Vi32(5)), Ret>> :
        framed \in BOOLEAN, k \in 0..MaxDepth, i \in U32Operands}

\* set up the frame over n arguments, call a subroutine that returns 5
CallerFramePrograms ==
    {LET pre == Prelude(framed, k)
     IN  pre \o <<SetFrame(n), Push(Vloc(Len(pre) + 4)), Call, Halt,
                  Push(Vi32(5)), Ret>> :
        framed \in BOOLEAN, k \in 0..MaxDepth, n \in U32Operands}

\* set up the frame over n arguments, call a subroutine that returns its
\* argument j
ArgPrograms ==
    {LET pre == Prelude(framed, k)
     IN  pre \o <<SetFrame(n), Push(Vloc(Len(pre) + 4)), Call, Halt,
                  Var(j), Ret>> :
        framed \in BOOLEAN, k \in 0..MaxDepth, n \in U32Operands,
        j \in U32Operands}

\* operands of every kind
TypeVals == {Vunit, Vi32(0), Vbool(TRUE), Vloc(0), Vundef}

\* get and set with an index and a base of every kind, the base also the
\* address of an array of one slot
TypePrograms ==
    LET array == <<Push(Vi32(1)), Push(Vunit), Alloc>>
        bases == {<<Push(b)>> : b \in TypeVals} \cup {array}
    IN  {b \o <<Push(x), Get, Halt>> : b \in bases, x \in TypeVals}
        \cup {b \o <<Push(x), Push(Vi32(7)), Set, Halt>> :
                 b \in bases, x \in TypeVals}

\* ret on three values, the saved fp and pc of every kind
RetPrograms ==
    {<<Push(a), Push(b), Push(Vi32(5)), Ret, Halt>> :
        a \in TypeVals, b \in {Vunit, Vi32(0), Vbool(TRUE), Vloc(4)}}

Programs ==
    TypePrograms \cup RetPrograms \cup OneInstrPrograms \cup ArithPrograms \cup FramePrograms \cup AllocPrograms
        \cup ArrayPrograms \cup NestedPrograms \cup LoopPrograms
        \cup FullStackPrograms
        \cup CalleeFramePrograms \cup CallerFramePrograms \cup ArgPrograms

----------------------------------------------------------------------------
(* run: State::init, then the iterations of exec, then the final pop *)

CodecIdle ==
    /\ cprog = <<>>
    /\ bytes = <<>>
    /\ decoded = [ok |-> FALSE, msg |-> "", prog |-> <<>>]
    /\ cphase = "idle"

\* nothing parsed, nothing assembled
TextIdle ==
    /\ line = <<>>
    /\ parsed = [by |-> "none", kind |-> "none", p |-> "none", label |-> <<>>,
                 instr |-> NoInstr]
    /\ pinstrs = <<>>
    /\ assembled = [kind |-> "none", prog |-> <<>>]

Init ==
    /\ debug \in {"DEBUG", "NODEBUG"}
    /\ overflow_checks \in BOOLEAN
    /\ prog \in Programs
    /\ pc = 0
    /\ fp = 0
    /\ stk = <<>>
    /\ heap = <<>>
    /\ status = "running"
    /\ msg = ""
    /\ result = NoVal
    /\ last = NoInstr
    /\ recent = <<>>
    /\ at_setframe = [fp |-> 0, stk |-> <<>>]
    /\ at_call = [ret |-> 0, fp |-> 0, stk |-> <<>>]
    /\ CodecIdle
    /\ TextIdle

\* exec is about to fetch an instruction
Fetchable == status = "running" /\ InRange(pc, Len(prog))

\* the instruction at pc
Cur == prog[pc + 1]

\* the latest RecentLen instructions
Window(q) == IF Len(q) <= RecentLen THEN q
             ELSE SubSeq(q, Len(q) - RecentLen + 1, Len(q))

\* the iteration that fetched Cur leaves o
Step(o) ==
    /\ pc' = o.pc
    /\ fp' = o.fp
    /\ stk' = o.stk
    /\ heap' = o.heap
    /\ status' = o.status
    /\ msg' = o.msg
    /\ result' = o.result
    /\ last' = Cur
    /\ recent' = Window(Append(recent, Cur))
    /\ UNCHANGED <<debug, overflow_checks, prog, codecvars, textvars>>

\* pc is past the program: Display indexes prog[pc] when d is DEBUG
FetchOutOfBounds ==
    /\ status = "running"
    /\ ~InRange(pc, Len(prog))
    /\ IF debug = "DEBUG"
       THEN status' = "panic" /\ msg' = "index out of bounds"
       ELSE status' = "err" /\ msg' = "pc out of bounds"
    /\ UNCHANGED <<debug, overflow_checks, prog, pc, fp, stk, heap, result,
                   last, recent, at_setframe, at_call, codecvars,
                   textvars>>

DoPush ==
    /\ Fetchable /\ Cur.op = "Push"
    /\ Step(ExecPush(Cur.v, pc + 1, fp, stk, heap))
    /\ UNCHANGED <<at_setframe, at_call>>

DoPop ==
    /\ Fetchable /\ Cur.op = "Pop"
    /\ Step(ExecPop(pc + 1, fp, stk, heap))
    /\ UNCHANGED <<at_setframe, at_call>>

DoPeek ==
    /\ Fetchable /\ Cur.op = "Peek"
    /\ Step(ExecPeek(Cur.n, pc + 1, fp, stk, heap))
    /\ UNCHANGED <<at_setframe, at_call>>

DoUnary ==
    /\ Fetchable /\ Cur.op = "Unary"
    /\ Step(ExecUnary(Cur.o, pc + 1, fp, stk, heap))
    /\ UNCHANGED <<at_setframe, at_call>>

DoBinary ==
    /\ Fetchable /\ Cur.op = "Binary"
    /\ Step(ExecBinary(Cur.o, overflow_checks, pc + 1, fp, stk, heap))
    /\ UNCHANGED <<at_setframe, at_call>>

DoSwap ==
    /\ Fetchable /\ Cur.op = "Swap"
    /\ Step(ExecSwap(pc + 1, fp, stk, heap))
    /\ UNCHANGED <<at_setframe, at_call>>

DoAlloc ==
    /\ Fetchable /\ Cur.op = "Alloc"
    /\ Step(ExecAlloc(overflow_checks, pc + 1, fp, stk, heap))
    /\ UNCHANGED <<at_setframe, at_call>>

DoSet ==
    /\ Fetchable /\ Cur.op = "Set"
    /\ Step(ExecSet(overflow_checks, pc + 1, fp, stk, heap))
    /\ UNCHANGED <<at_setframe, at_call>>

DoGet ==
    /\ Fetchable /\ Cur.op = "Get"
    /\ Step(ExecGet(overflow_checks, pc + 1, fp, stk, heap))
    /\ UNCHANGED <<at_setframe, at_call>>

DoVar ==
    /\ Fetchable /\ Cur.op = "Var"
    /\ Step(ExecVar(Cur.n, overflow_checks, pc + 1, fp, stk, heap))
    /\ UNCHANGED <<at_setframe, at_call>>

DoStore ==
    /\ Fetchable /\ Cur.op = "Store"
    /\ Step(ExecStore(Cur.n, overflow_checks, pc + 1, fp, stk, heap))
    /\ UNCHANGED <<at_setframe, at_call>>

DoSetFrame ==
    /\ Fetchable /\ Cur.op = "SetFrame"
    /\ Step(ExecSetFrame(Cur.n, overflow_checks, pc + 1, fp, stk, heap))
    /\ at_setframe' = [fp |-> fp, stk |-> stk]
    /\ UNCHANGED at_call

DoCall ==
    /\ Fetchable /\ Cur.op = "Call"
    /\ Step(ExecCall(pc + 1, fp, stk, heap))
    /\ at_call' = [ret |-> pc + 1, fp |-> fp, stk |-> stk]
    /\ UNCHANGED at_setframe

DoRet ==
    /\ Fetchable /\ Cur.op = "Ret"
    /\ Step(ExecRet(pc + 1, fp, stk, heap))
    /\ UNCHANGED <<at_setframe, at_call>>

DoBranch ==
    /\ Fetchable /\ Cur.op = "Branch"
    /\ Step(ExecBranch(pc + 1, fp, stk, heap))
    /\ UNCHANGED <<at_setframe, at_call>>

DoHalt ==
    /\ Fetchable /\ Cur.op = "Halt"
    /\ Step(ExecHalt(pc + 1, fp, stk, heap))
    /\ UNCHANGED <<at_setframe, at_call>>

Next ==
    \/ FetchOutOfBounds
    \/ DoPush
    \/ DoPop
    \/ DoPeek
    \/ DoUnary
    \/ DoBinary
    \/ DoSwap
    \/ DoAlloc
    \/ DoSet
    \/ DoGet
    \/ DoVar
    \/ DoStore
    \/ DoSetFrame
    \/ DoCall
    \/ DoRet
    \/ DoBranch
    \/ DoHalt

Spec == Init /\ [][Next]_vars

----------------------------------------------------------------------------
(* The codec on its own: a program is encoded, the bytes are decoded *)

\* the u32 operands and the values of the programs encoded
CodecWords == {0, 258, -1}

CodecVals ==
    {Vunit, Vundef, Vbool(TRUE), Vbool(FALSE)}
        \cup {Vi32(i) : i \in {0, -1, 258, I32_MIN}}
        \cup {Vloc(l) : l \in CodecWords} \cup {Vaddr(0)}

CodecInstrs ==
    {Push(v) : v \in CodecVals}
        \cup {Peek(i) : i \in CodecWords} \cup {Var(i) : i \in CodecWords}
        \cup {Store(i) : i \in CodecWords}
        \cup {SetFrame(i) : i \in CodecWords}
        \cup {Unary(u) : u \in Unops} \cup {Binary(b) : b \in Binops}
        \cup {Pop, Swap, Alloc, Set, Get, Call, Ret, Branch, Halt}

CodecPrograms == SeqsUpTo(CodecInstrs, MaxCodecLen)

\* no run of the machine
VmIdle ==
    /\ debug = "NODEBUG"
    /\ overflow_checks = FALSE
    /\ prog = <<>>
    /\ pc = 0
    /\ fp = 0
    /\ stk = <<>>
    /\ heap = <<>>
    /\ status = "idle"
    /\ msg = ""
    /\ result = NoVal
    /\ last = NoInstr
    /\ recent = <<>>
    /\ at_setframe = [fp |-> 0, stk |-> <<>>]
    /\ at_call = [ret |-> 0, fp |-> 0, stk |-> <<>>]

CodecInit ==
    /\ cprog \in CodecPrograms
    /\ bytes = <<>>
    /\ decoded = [ok |-> FALSE, msg |-> "", prog |-> <<>>]
    /\ cphase = "start"
    /\ VmIdle
    /\ TextIdle

\* every Push operand of q is one Val::to_bytes supports
Encodable(q) ==
    \A k \in 1..Len(q) : q[k].op = "Push" => ValEncodable(q[k].v)

Encode ==
    /\ cphase = "start"
    /\ IF Encodable(cprog)
       THEN bytes' = EncodeProgram(cprog) /\ cphase' = "encoded"
       ELSE bytes' = bytes /\ cphase' = "panic"
    /\ UNCHANGED <<cprog, decoded, vmvars, textvars>>

Decode ==
    /\ cphase = "encoded"
    /\ decoded' = ProgFromBytes(bytes)
    /\ cphase' = "decoded"
    /\ UNCHANGED <<cprog, bytes, vmvars, textvars>>

CodecNext ==
    \/ Encode
    \/ Decode

CodecSpec == CodecInit /\ [][CodecNext]_vars

----------------------------------------------------------------------------
(* main on a damaged file: the bytes of an encoded program cut short, or
   with one tag byte replaced by a byte no table knows *)

WireInstrs ==
    {Push(Vunit), Push(Vi32(258)), Push(Vloc(-1)), Pop, Peek(258),
     Unary("Neg"), Binary("Eq"), Get, SetFrame(0), Halt}

WirePrograms == SeqsUpTo(WireInstrs, MaxCodecLen)

\* the strict prefixes of bs
Prefixes(bs) == {SubSeq(bs, 1, k) : k \in 0..(Len(bs) - 1)}

\* the position in the encoding of q of the opcode byte of q[k]
OpcodeAt(q, k) == 4 + Len(ConcatBytes(SubSeq(q, 1, k - 1), 1)) + 1

\* the table the byte after the opcode of i is looked up in
TagKind(i) ==
    CASE i.op = "Push" -> "val"
      [] i.op = "Unary" -> "unop"
      [] i.op = "Binary" -> "binop"
      [] OTHER -> "none"

\* bytes outside the table: the first unknown one and the largest
UnknownTags(kind) ==
    CASE kind = "instr" -> {16, 255}
      [] kind = "val" -> {6, 255}
      [] kind = "unop" -> {1, 255}
      [] kind = "binop" -> {6, 255}
      [] OTHER -> {}

\* the encoding of q with one opcode or operand tag replaced
Corruptions(q) ==
    LET enc == EncodeProgram(q)
    IN  UNION {{[enc EXCEPT ![OpcodeAt(q, k)] = b] :
                    b \in UnknownTags("instr")}
               \cup {[enc EXCEPT ![OpcodeAt(q, k) + 1] = b] :
                    b \in UnknownTags(TagKind(q[k]))} : k \in 1..Len(q)}

WireInputs(q) ==
    {EncodeProgram(q)} \cup Prefixes(EncodeProgram(q)) \cup Corruptions(q)

WireInit ==
    /\ cprog \in WirePrograms
    /\ bytes \in WireInputs(cprog)
    /\ decoded = [ok |-> FALSE, msg |-> "", prog |-> <<>>]
    /\ cphase = "encoded"
    /\ VmIdle
    /\ TextIdle

WireNext == Decode

WireSpec == WireInit /\ [][WireNext]_vars

----------------------------------------------------------------------------
(* from_str on one line *)

\* operand tokens: numbers at and around the ends of i32 and u32, names
NumberToks ==
    {<<"0">>,
     <<"2">>,
     <<"1", "2", "3">>,
     <<"-", "1">>,
     <<"+", "7">>,
     <<"0", "0", "7">>,
     <<"2", "1", "4", "7", "4", "8", "3", "6", "4", "7">>,
     <<"2", "1", "4", "7", "4", "8", "3", "6", "4", "8">>,
     <<"-", "2", "1", "4", "7", "4", "8", "3", "6", "4", "8">>,
     <<"-", "2", "1", "4", "7", "4", "8", "3", "6", "4", "9">>,
     <<"4", "2", "9", "4", "9", "6", "7", "2", "9", "5">>,
     <<"4", "2", "9", "4", "9", "6", "7", "2", "9", "6">>,
     <<"1", "2", "x">>,
     <<"-">>}

NameToks ==
    {<<"t", "t">>,
     <<"t", "r", "u", "e">>,
     <<"f", "a", "l", "s", "e">>,
     <<"u", "n", "d", "e", "f">>,
     <<"n", "e", "g">>,
     <<"+">>,
     <<"*">>,
     <<"-">>,
     <<"/">>,
     <<"<">>,
     <<"=", "=">>,
     <<"L", "a">>,
     <<"_", "L", "1">>,
     <<"L", "a", "b", "c", "1", "2", "3">>,
     <<"x">>,
     <<"L">>}

Mnemonics ==
    {Tok.push, Tok.pop, Tok.peek, Tok.unary, Tok.binary, Tok.swap, Tok.alloc,
     Tok.get, Tok.set, Tok.var, Tok.store, Tok.setframe, Tok.call, Tok.ret,
     Tok.branch, Tok.halt}

\* the empty line, a mnemonic alone or with an operand, a declaration
Lines ==
    {<<>>, <<<<"n", "o", "p">>>>, <<<<":">>>>}
        \cup {<<m>> : m \in Mnemonics}
        \cup {<<m, t>> : m \in {Tok.push, Tok.peek, Tok.var, Tok.halt},
                         t \in NumberToks \cup NameToks}
        \cup {<<m, t>> : m \in {Tok.unary, Tok.binary, Tok.store,
                                Tok.setframe},
                         t \in NameToks \cup {<<"0">>, <<"2">>}}
        \cup {<<t \o <<":">>>> : t \in NameToks}

ParseInit ==
    /\ line \in Lines
    /\ parsed = [by |-> "none", kind |-> "none", p |-> "none", label |-> <<>>,
                 instr |-> NoInstr]
    /\ pinstrs = <<>>
    /\ assembled = [kind |-> "none", prog |-> <<>>]
    /\ VmIdle
    /\ CodecIdle

ParseInstr ==
    /\ parsed.by = "none"
    /\ LET r == instr_from_str(line)
       IN  parsed' = [by |-> "Instr", kind |-> r.kind, p |-> "none",
                      label |-> <<>>, instr |-> r.instr]
    /\ UNCHANGED <<line, pinstrs, assembled, vmvars, codecvars>>

ParsePInstr ==
    /\ parsed.by = "none"
    /\ LET r == pinstr_from_str(line)
       IN  parsed' = [by |-> "PInstr", kind |-> r.kind, p |-> r.pinstr.p,
                      label |-> r.pinstr.label, instr |-> r.pinstr.instr]
    /\ UNCHANGED <<line, pinstrs, assembled, vmvars, codecvars>>

ParseNext ==
    \/ ParseInstr
    \/ ParsePInstr

ParseSpec == ParseInit /\ [][ParseNext]_vars

----------------------------------------------------------------------------
(* assemble on one pseudo-program *)

PInstrs ==
    {PLabel(<<"L", "a">>), PLabel(<<"L", "b">>), PPush(<<"L", "a">>), PPush(<<"L", "b">>),
     PI(Halt), PI(Push(Vi32(1)))}

PseudoPrograms == SeqsUpTo(PInstrs, MaxAsmLen)

AsmInit ==
    /\ pinstrs \in PseudoPrograms
    /\ assembled = [kind |-> "none", prog |-> <<>>]
    /\ line = <<>>
    /\ parsed = [by |-> "none", kind |-> "none", p |-> "none", label |-> <<>>,
                 instr |-> NoInstr]
    /\ VmIdle
    /\ CodecIdle

Assemble ==
    /\ assembled.kind = "none"
    /\ assembled' = assemble(pinstrs)
    /\ UNCHANGED <<line, parsed, pinstrs, vmvars, codecvars>>

AsmNext == Assemble

AsmSpec == AsmInit /\ [][AsmNext]_vars

----------------------------------------------------------------------------
(* C1 *)

\* C1: decoding the encoding of a program (the 4-byte count, then to_bytes
\* of each instruction) returns exactly that program
C1_RoundTrip ==
    cphase = "decoded" => decoded.ok /\ decoded.prog = cprog

----------------------------------------------------------------------------
(* C2 *)

\* the latest instructions executed end with n instructions satisfying P
EndsWith(n, P(_)) ==
    Len(recent) >= n /\ P(SubSeq(recent, Len(recent) - n + 1, Len(recent)))

\* call; setframe 0; push 5; ret
CalleeSetsFrame(q) == q = <<Call, SetFrame(0), Push(Vi32(5)), Ret>>

\* setframe 0; push <location>; call; push 5; ret
CallerSetsFrame(q) ==
    /\ q[1] = SetFrame(0)
    /\ q[2].op = "Push" /\ q[2].v.tag = "Vloc"
    /\ q[3] = Call
    /\ q[4] = Push(Vi32(5))
    /\ q[5] = Ret

\* the stack without its top value
Front(s) == SubSeq(s, 1, Len(s) - 1)

\* C2 as stated: a subroutine entered by call that executes setframe 0,
\* push 5, ret is back at the instruction after the call with the caller's
\* fp, and the caller's stack holds one new value, the 5
C2_CalleeSetFrame ==
    (status = "running" /\ EndsWith(4, CalleeSetsFrame)) =>
        /\ pc = at_call.ret
        /\ fp = at_call.fp
        /\ stk = Append(Front(at_call.stk), Vi32(5))

\* C2 amended: when the caller executes setframe 0 before it pushes the
\* target and calls, and the subroutine executes push 5, ret, the machine is
\* back at the instruction after the call with the fp the caller had before
\* the setframe, and the stack is the caller's stack from before the setframe
\* followed by the 5
C2_CallerSetFrame ==
    (status = "running" /\ EndsWith(5, CallerSetsFrame)) =>
        /\ pc = at_call.ret
        /\ fp = at_setframe.fp
        /\ stk = Append(at_setframe.stk, Vi32(5))

\* a return into a caller that had a frame of its own and values on its stack
C2_Witness ==
    /\ status = "running"
    /\ EndsWith(5, CallerSetsFrame)
    /\ at_setframe.fp > 0
    /\ Len(at_setframe.stk) > at_setframe.fp

----------------------------------------------------------------------------
(* C3 *)

\* C3: run never crashes: no instruction panics (the debug printing apart)
C3_NeverCrashes == debug = "NODEBUG" => status # "panic"

----------------------------------------------------------------------------
(* C4 *)

\* the results the claim allows for b on the popped integers i1 (the top)
\* and i2, whichever of the two is taken as the first operand
BinaryExpected(b, i1, i2) ==
    CASE b = "Add" -> {Vi32(WrapAdd(i1, i2))}
      [] b = "Mul" -> {Vi32(WrapMul(i1, i2))}
      [] b = "Sub" -> {Vi32(WrapSub(i1, i2)), Vi32(WrapSub(i2, i1))}
      [] b = "Div" -> {Vi32(TruncDiv(i1, i2)) : x \in {i2} \ {0}}
                          \cup {Vi32(TruncDiv(i2, i1)) : x \in {i1} \ {0}}
      [] b = "Lt" -> {Vbool(i1 < i2), Vbool(i2 < i1)}
      [] b = "Eq" -> {Vbool(i1 = i2)}

\* C4: Binary(b) on two integers pops both and pushes the sum, product,
\* difference or quotient, or for less-than a boolean that is true exactly
\* when one is strictly less than the other, or for equal whether they are equal
C4_BinaryResults ==
    [][(/\ Fetchable
        /\ Cur.op = "Binary"
        /\ Len(stk) >= 2
        /\ stk[Len(stk)].tag = "Vi32"
        /\ stk[Len(stk) - 1].tag = "Vi32"
        /\ status' = "running")
       => \E v \in BinaryExpected(Cur.o, stk[Len(stk)].val,
                                  stk[Len(stk) - 1].val) :
            stk' = Append(SubSeq(stk, 1, Len(stk) - 2), v)]_vars

----------------------------------------------------------------------------
(* C5 *)

\* the value at offset i from the top of s, counting the top as 0 or as 1
FromTop(s, i) ==
    {s[k] : k \in {Len(s) - i, Len(s) - i + 1} \cap (1..Len(s))}

\* C5: peek i pushes a copy of the value at offset i from the top of the
\* stack and leaves the values already there unchanged
C5_PeekFromTop ==
    [][(Fetchable /\ Cur.op = "Peek" /\ status' = "running")
       => \E v \in FromTop(stk, Cur.n) : stk' = Append(stk, v)]_vars

----------------------------------------------------------------------------
(* C6 *)

\* fp is a stack index at most the stack length
FpWithinStack == fp >= 0 /\ fp <= Len(stk)

\* C6 as stated: in every state of every run fp <= stack length
C6_FpWithinStack == status = "running" => FpWithinStack

\* C6 amended: fp <= stack length holds at the start of a run, after every
\* setframe i that completes with i less than the stack length (the saved fp
\* counted), and is kept by every instruction that completes without
\* shrinking the stack or reloading fp (push, peek, var, unary, swap, call);
\* pop, binary, alloc, set, get, store and branch shrink the stack without
\* looking at fp, and ret loads fp from the stack unchecked
C6_FpKept ==
    /\ (status = "running" /\ last = NoInstr => FpWithinStack)
    /\ [][(Fetchable /\ status' = "running")
          => /\ (Cur.op = "SetFrame" /\ ULt(Cur.n, Len(stk')))
                    => FpWithinStack'
             /\ (/\ Cur.op \in {"Push", "Peek", "Var", "Unary", "Swap", "Call"}
                 /\ FpWithinStack)
                    => FpWithinStack']_vars

\* a frame set up above the bottom of the stack
C6_Witness ==
    /\ status = "running"
    /\ last.op = "SetFrame"
    /\ fp > 0
    /\ fp < Len(stk)

----------------------------------------------------------------------------
(* C7 *)

\* C7 as stated: halt returns the value on the stack when it is the only one,
\* and the run is an error when the stack at halt is empty or holds more
\* than one value
C7_ExactlyOneAtHalt ==
    [][(Fetchable /\ Cur.op = "Halt")
       => IF Len(stk) = 1
          THEN status' = "ok" /\ result' = stk[1]
          ELSE status' = "err"]_vars

\* C7 amended: run returns Ok(v) only when execution reaches halt with at
\* least one value on the stack, and v is the top value, the values below it
\* being ignored; a run that halts with an empty stack returns the error
\* "attempt to pop empty stack"
C7_TopAtHalt ==
    /\ [](status = "ok" => last.op = "Halt")
    /\ [][(Fetchable /\ Cur.op = "Halt")
          => IF Len(stk) >= 1
             THEN /\ status' = "ok"
                  /\ result' = stk[Len(stk)]
                  /\ stk' = Front(stk)
             ELSE status' = "err" /\ msg' = "attempt to pop empty stack"]_vars

\* a run that returned the top value with other values left beneath it
C7_Witness ==
    /\ status = "ok"
    /\ last.op = "Halt"
    /\ Len(stk) >= 1
    /\ result # stk[1]

----------------------------------------------------------------------------
(* C8 *)

\* C8: alloc with a non-negative count s and the heap at length len fails
\* with "out of heap space", the heap unchanged, when len + s + 1 >= 1024;
\* otherwise it appends the size marker and s copies of the initial value,
\* changes no existing slot, and pushes the address of the marker
C8_AllocBounds ==
    [][(/\ Fetchable
        /\ Cur.op = "Alloc"
        /\ Len(stk) >= 2
        /\ stk[Len(stk) - 1].tag = "Vi32"
        /\ stk[Len(stk) - 1].val >= 0)
       => LET vinit == stk[Len(stk)]
              size == stk[Len(stk) - 1].val
          IN  IF size >= HEAP_SIZE - Len(heap) - 1
              THEN /\ status' = "err"
                   /\ msg' = "out of heap space"
                   /\ heap' = heap
              ELSE /\ status' = "running"
                   /\ heap' = heap \o <<Vsize(size)>>
                                   \o [k \in 1..size |-> vinit]
                   /\ stk' = Append(SubSeq(stk, 1, Len(stk) - 2),
                                    Vaddr(Len(heap)))]_vars

\* an alloc refused for exactly one slot too many, above an earlier array
C8_Witness ==
    /\ status = "err"
    /\ msg = "out of heap space"
    /\ last.op = "Alloc"
    /\ Len(heap) > 0
    /\ \E k \in 1..Len(prog) :
          /\ prog[k].op = "Push"
          /\ prog[k].v.tag = "Vi32"
          /\ Len(heap) + prog[k].v.val + 1 = HEAP_SIZE

----------------------------------------------------------------------------
(* C9 *)

\* base is the address of an array of declared size s lying inside the heap
ArrayAt(base, s) ==
    /\ base.tag = "Vaddr"
    /\ base.val >= 0
    /\ base.val < Len(heap)
    /\ heap[base.val + 1] = Vsize(s)
    /\ s >= 0
    /\ base.val + s + 1 <= Len(heap)

\* C9: on an array of declared size s, get and set with an integer index
\* ix >= s fail with an error and leave the heap unchanged; with
\* 0 <= ix < s, get pushes the value of slot ix and set writes slot ix and
\* no other slot of the heap
C9_ArrayBounds ==
    [][(Fetchable /\ Cur.op \in {"Set", "Get"})
       => LET n == Len(stk)
              isset == Cur.op = "Set"
              ixp == IF isset THEN n - 1 ELSE n
              rest == SubSeq(stk, 1, ixp - 2)
          IN  \A s \in 0..HEAP_SIZE :
                (/\ ixp >= 2
                 /\ stk[ixp].tag = "Vi32"
                 /\ ArrayAt(stk[ixp - 1], s))
                => LET ix == stk[ixp].val
                       base == stk[ixp - 1].val
                   IN  IF ix >= s
                       THEN /\ status' = "err"
                            /\ msg' \in {"index past end of array",
                                         "indexing past end of heap"}
                            /\ heap' = heap
                       ELSE IF ix >= 0
                       THEN /\ status' = "running"
                            /\ stk' = IF isset THEN rest
                                      ELSE Append(rest, heap[base + ix + 2])
                            /\ heap' = IF isset
                                       THEN [heap EXCEPT ![base + ix + 2] = stk[n]]
                                       ELSE heap
                       ELSE TRUE]_vars

\* a get that read back, from the array above another one, the value a set
\* had written there
C9_Witness ==
    /\ status = "running"
    /\ last.op = "Get"
    /\ Len(stk) >= 1
    /\ stk[Len(stk)] = Vi32(7)
    /\ \E k \in 3..Len(heap) : heap[k] = Vi32(7)

----------------------------------------------------------------------------
(* C10 *)

\* C10: the stack never holds more than 1024 values and the heap never more
\* than 1024 slots; an instruction that would grow a stack of 1024 values
\* fails with "out of stack space" and leaves the stack as it was
C10_Capacity ==
    /\ [](Len(stk) <= STK_SIZE /\ Len(heap) <= HEAP_SIZE)
    /\ [][(/\ Fetchable
           /\ Len(stk) = STK_SIZE
           /\ \/ Cur.op \in {"Push", "SetFrame"}
              \/ Cur.op = "Peek" /\ Cur.n < Len(stk)
              \/ Cur.op = "Var" /\ fp >= 0 /\ fp + Cur.n < Len(stk))
          => /\ status' = "err"
             /\ msg' = "out of stack space"
             /\ stk' = stk]_vars

\* a push refused on a stack that holds 1024 values
C10_Witness ==
    /\ status = "err"
    /\ msg = "out of stack space"
    /\ Len(stk) = STK_SIZE

----------------------------------------------------------------------------
(* C11 *)

\* C11: Binary(Div) on two integers whose divisor (the operand binop
\* divides by) is 0 makes run return an error: no value, no crash
C11_DivByZeroIsError ==
    [][(/\ Fetchable
        /\ Cur = Binary("Div")
        /\ Len(stk) >= 2
        /\ stk[Len(stk)].tag = "Vi32"
        /\ stk[Len(stk) - 1] = Vi32(0))
       => status' = "err" /\ result' = NoVal]_vars

----------------------------------------------------------------------------
(* C12 *)

\* C12: whenever pc is not an index of the program at fetch time, run
\* returns the error "pc out of bounds", no value, and no instruction is
\* executed at that step
C12_NoImplicitHalt ==
    [][(status = "running" /\ ~InRange(pc, Len(prog)))
       => /\ status' = "err"
          /\ msg' = "pc out of bounds"
          /\ result' = NoVal
          /\ UNCHANGED <<pc, fp, stk, heap, last>>]_vars

----------------------------------------------------------------------------
(* C13 *)

\* the bytes are a strict prefix of the encoding of cprog
Truncated ==
    LET enc == EncodeProgram(cprog)
    IN  Len(bytes) < Len(enc) /\ bytes = SubSeq(enc, 1, Len(bytes))

\* C13: decoding a strict prefix of the encoding of a program returns a
\* ParseError and no program, neither a wrong one nor a shorter one
C13_RejectsTruncation ==
    (cphase = "decoded" /\ Truncated)
        => ~decoded.ok /\ decoded.prog = <<>>

\* a cut at the boundary between two instructions: the count and the whole
\* first instruction are there, the second is missing
C13_Witness ==
    /\ cphase = "decoded"
    /\ Len(cprog) = 2
    /\ bytes = U32ToBytes(2) \o InstrToBytes(cprog[1])
    /\ ~decoded.ok
    /\ decoded.msg = "not enough bytes"

----------------------------------------------------------------------------
(* C14 *)

\* the bytes are the encoding of cprog up to position p, where a tag of the
\* given kind is expected, and the byte at p is none the table knows
UnknownTagAt(p, kind) ==
    LET enc == EncodeProgram(cprog)
    IN  /\ p <= Len(bytes)
        /\ SubSeq(bytes, 1, p - 1) = SubSeq(enc, 1, p - 1)
        /\ \/ kind = "instr" /\ bytes[p] > 15
           \/ kind = "val" /\ bytes[p] > 5
           \/ kind = "unop" /\ bytes[p] # 0
           \/ kind = "binop" /\ bytes[p] > 5

\* C14: when the byte where an opcode, a value tag, a unary or a binary
\* operator tag is expected is outside its table, decoding returns a
\* ParseError and no program
C14_RejectsUnknownTags ==
    (/\ cphase = "decoded"
     /\ \E k \in 1..Len(cprog) :
           \/ UnknownTagAt(OpcodeAt(cprog, k), "instr")
           \/ /\ TagKind(cprog[k]) # "none"
              /\ UnknownTagAt(OpcodeAt(cprog, k) + 1, TagKind(cprog[k])))
        => ~decoded.ok /\ decoded.prog = <<>>

\* an unknown operator tag in the second instruction, after a valid first
C14_Witness ==
    /\ cphase = "decoded"
    /\ Len(cprog) = 2
    /\ TagKind(cprog[2]) \in {"unop", "binop"}
    /\ UnknownTagAt(OpcodeAt(cprog, 2) + 1, TagKind(cprog[2]))
    /\ ~decoded.ok
    /\ decoded.msg \in {"unknown unop code", "unknown binop code"}

----------------------------------------------------------------------------
(* C15 *)

\* the labels declared in q, and where
Declarations(q, lbl) == {k \in 1..Len(q) : q[k] = PLabel(lbl)}

\* every label pushed in q is declared, and no label is declared twice
WellLabelled(q) ==
    \A k \in 1..Len(q) :
        q[k].p \in {"PLabel", "PPush"}
            => Cardinality(Declarations(q, q[k].label)) = 1

\* the number of non-label pseudo-instructions before the declaration of lbl
AddressOf(q, lbl) ==
    LET k == CHOOSE j \in Declarations(q, lbl) : TRUE
    IN  Cardinality({j \in 1..(k - 1) : q[j].p # "PLabel"})

\* one native instruction per non-label pseudo-instruction, labels resolved
Resolved(q) ==
    LET f == SelectSeq(q, LAMBDA x : x.p # "PLabel")
    IN  [j \in 1..Len(f) |->
            IF f[j].p = "PPush" THEN Push(Vloc(AddressOf(q, f[j].label)))
            ELSE f[j].instr]

\* C15: assemble returns one native instruction per non-label
\* pseudo-instruction, in order, pass-through instructions unchanged and
\* each push of a label as Push(Vloc(a)), a the number of non-label
\* pseudo-instructions before the label's declaration
C15_LabelResolution ==
    (assembled.kind # "none" /\ WellLabelled(pinstrs))
        => assembled.kind = "ok" /\ assembled.prog = Resolved(pinstrs)

----------------------------------------------------------------------------
(* C16 *)

\* C16: assemble of a pseudo-program that pushes a label declared nowhere
\* returns an error: no native program, no crash
C16_UndefinedLabel ==
    (/\ assembled.kind # "none"
     /\ \E k \in 1..Len(pinstrs) :
           /\ pinstrs[k].p = "PPush"
           /\ Declarations(pinstrs, pinstrs[k].label) = {})
        => assembled.kind = "err"

----------------------------------------------------------------------------
(* C19 *)

\* the instruction each mnemonic names in the opcode table
MnemonicOp(tok) ==
    CASE tok = Tok.push -> "Push" [] tok = Tok.pop -> "Pop"
      [] tok = Tok.peek -> "Peek" [] tok = Tok.unary -> "Unary"
      [] tok = Tok.binary -> "Binary" [] tok = Tok.swap -> "Swap"
      [] tok = Tok.alloc -> "Alloc" [] tok = Tok.get -> "Get"
      [] tok = Tok.set -> "Set" [] tok = Tok.var -> "Var"
      [] tok = Tok.store -> "Store" [] tok = Tok.setframe -> "SetFrame"
      [] tok = Tok.call -> "Call" [] tok = Tok.ret -> "Ret"
      [] tok = Tok.branch -> "Branch" [] tok = Tok.halt -> "Halt"
      [] OTHER -> "none"

\* C19: a parsed instruction line yields the instruction its mnemonic names
\* (get the array load Get, set the array store Set, and so for all 16);
\* push 123 parses to Push(Vi32(123)); a token Name: with a well-formed
\* label name parses to PLabel(Name)
C19_MnemonicParsing ==
    /\ (parsed.kind = "ok" /\ parsed.p \in {"none", "PI"})
          => parsed.instr.op = MnemonicOp(line[1])
    /\ (parsed.by = "Instr" /\ Len(line) = 1
            /\ MnemonicOp(line[1]) \in {"Pop", "Swap", "Alloc", "Get", "Set",
                                        "Call", "Ret", "Branch", "Halt"})
          => parsed.kind = "ok"
    /\ (parsed.by = "Instr" /\ line = <<Tok.push, <<"1", "2", "3">>>>)
          => parsed.kind = "ok" /\ parsed.instr = Push(Vi32(123))
    /\ (parsed.by = "PInstr" /\ line = <<<<"L", "a", "b", "c", "1", "2", "3", ":">>>>)
          => /\ parsed.kind = "ok"
             /\ parsed.p = "PLabel"
             /\ parsed.label = <<"L", "a", "b", "c", "1", "2", "3">>

----------------------------------------------------------------------------
(* C17 *)

\* C17: with at least three values above the frame base, ret pops the
\* return value, a saved pc and a saved fp, truncates the stack to the fp in
\* effect before, sets pc and fp to the popped locations and pushes the
\* return value: the stack is then the values below the old fp followed by
\* the return value; when the second or third popped value is not a
\* location, run returns a type error and no value
C17_RetStep ==
    [][(Fetchable /\ Cur.op = "Ret" /\ Len(stk) >= 3)
       => LET n == Len(stk)
          IN  IF stk[n - 1].tag = "Vloc" /\ stk[n - 2].tag = "Vloc"
              THEN (fp >= 0 /\ fp <= n - 3)
                    => /\ status' = "running"
                       /\ pc' = stk[n - 1].val
                       /\ fp' = stk[n - 2].val
                       /\ stk' = Append(SubSeq(stk, 1, fp), stk[n])
              ELSE /\ status' = "err"
                   /\ msg' = "expected location for pc and fp in return"
                   /\ result' = NoVal]_vars

\* a return that discarded the arguments stacked above the frame base
C17_Witness ==
    /\ status = "running"
    /\ last.op = "Ret"
    /\ at_call.stk # <<>>
    /\ Len(stk) + 2 < Len(at_call.stk)
    /\ fp = at_setframe.fp

----------------------------------------------------------------------------
(* C18 *)

\* instruction i finds on stack s an operand of another kind than it expects
Mismatch(i, s) ==
    LET n == Len(s)
    IN  \/ i.op = "Unary" /\ n >= 1 /\ s[n].tag # "Vbool"
        \/ i.op = "Binary" /\ n >= 2
              /\ (s[n].tag # "Vi32" \/ s[n - 1].tag # "Vi32")
        \/ i.op = "Alloc" /\ n >= 2 /\ s[n - 1].tag # "Vi32"
        \/ i.op = "Get" /\ n >= 2
              /\ (s[n].tag # "Vi32" \/ s[n - 1].tag # "Vaddr")
        \/ i.op = "Set" /\ n >= 3
              /\ (s[n - 1].tag # "Vi32" \/ s[n - 2].tag # "Vaddr")
        \/ i.op = "Call" /\ n >= 1 /\ s[n].tag # "Vloc"
        \/ i.op = "Branch" /\ n >= 2
              /\ (s[n].tag # "Vloc" \/ s[n - 1].tag # "Vbool")

\* C18: unary with a non-boolean, binary with a non-integer, alloc with a
\* non-integer count, get and set with a non-integer index or a non-address
\* base, call with a non-location target, branch with a non-location target
\* or a non-boolean condition each make run return an error and no value,
\* and no instruction executes after the error
C18_TypeMismatch ==
    /\ [][(Fetchable /\ Mismatch(Cur, stk))
          => /\ status' = "err"
             /\ msg' \in {"expected bool", "expected i32", "expected address",
                          "expected loc for call target", "expected location"}
             /\ result' = NoVal]_vars
    /\ [][status # "err"]_vars

\* a set refused for its index, on the address of an allocated array
C18_Witness ==
    /\ status = "err"
    /\ msg = "expected i32"
    /\ last.op = "Set"
    /\ Len(heap) = 2

----------------------------------------------------------------------------
(* C20 *)

\* C20: Binary(b) takes the value on top of the stack as the left operand
\* and the value beneath it as the right one: after push a; push b,
\* subtract leaves b - a, divide b / a, and less-than compares b with a
C20_OperandOrder ==
    [][(/\ Fetchable
        /\ Cur.op = "Binary"
        /\ Len(stk) >= 2
        /\ stk[Len(stk)].tag = "Vi32"
        /\ stk[Len(stk) - 1].tag = "Vi32"
        /\ status' = "running")
       => LET b == stk[Len(stk)].val
              a == stk[Len(stk) - 1].val
              rest == SubSeq(stk, 1, Len(stk) - 2)
          IN  /\ Cur.o = "Sub" => stk' = Append(rest, Vi32(WrapSub(b, a)))
              /\ Cur.o = "Div" => stk' = Append(rest, Vi32(TruncDiv(b, a)))
              /\ (Cur.o = "Lt" /\ a # b) => stk' = Append(rest, Vbool(b < a))]_vars

\* push 1; push 2; binary -, which leaves 2 - 1
C20_Witness ==
    /\ status = "running"
    /\ last = Binary("Sub")
    /\ Len(prog) >= 2
    /\ prog[1] = Push(Vi32(1))
    /\ prog[2] = Push(Vi32(2))
    /\ stk = <<Vi32(1)>>

----------------------------------------------------------------------------
(* C21 *)

\* no Push of the program has a size marker or a heap address as operand
NoInternalPush(q) ==
    \A k \in 1..Len(q) :
        q[k].op = "Push" => q[k].v.tag \notin {"Vsize", "Vaddr"}

\* the address v designates an array that lies within the heap h: a size
\* marker at the address, and all its slots below the end of the heap
AddrOk(v, h) ==
    /\ v.val >= 0
    /\ v.val < Len(h)
    /\ h[v.val + 1].tag = "Vsize"
    /\ h[v.val + 1].val >= 0
    /\ v.val + h[v.val + 1].val < Len(h)

\* every address held on the stack s or in a slot of the heap h designates
\* an array within h, and no size marker is on the stack
HeapOk(s, h) ==
    /\ \A k \in 1..Len(s) : s[k].tag = "Vaddr" => AddrOk(s[k], h)
    /\ \A k \in 1..Len(h) : h[k].tag = "Vaddr" => AddrOk(h[k], h)
    /\ \A k \in 1..Len(s) : s[k].tag # "Vsize"

\* C21: in a program that pushes no size marker and no heap address, every
\* address on the stack or in a heap slot always designates a size marker
\* whose array lies within the heap, and no size marker is on the stack; no
\* step shrinks the heap or changes a slot that holds a size marker; get and
\* set never fail with "expected size at array location" and never index
\* the heap outside its length
C21_HeapWellFormed ==
    /\ [](NoInternalPush(prog) =>
            /\ HeapOk(stk, heap)
            /\ result.tag \in {"Vaddr", "Vsize"} =>
                  (result.tag = "Vaddr" /\ AddrOk(result, heap))
            /\ msg # "expected size at array location"
            /\ ~(status = "panic" /\ last.op \in {"Get", "Set"}
                                  /\ msg = "index out of bounds"))
    /\ [][NoInternalPush(prog) =>
            /\ Len(heap') >= Len(heap)
            /\ \A k \in 1..Len(heap) :
                  (heap[k].tag = "Vsize" \/ heap'[k].tag = "Vsize")
                      => heap'[k] = heap[k]]_vars

\* an address read back from a slot of the heap has served as the base of
\* a write that stored an address in the array it designates
C21_Witness ==
    /\ status = "running"
    /\ last = Set
    /\ Len(heap) >= 4
    /\ heap[1] = Vsize(1)
    /\ heap[2] = Vaddr(2)
    /\ heap[3] = Vsize(1)
    /\ heap[4] = Vaddr(0)
    /\ stk = <<Vaddr(0), Vaddr(2)>>

----------------------------------------------------------------------------
(* C22 *)

\* setframe n; push <location>; call
CallSetUp(q) ==
    /\ q[1].op = "SetFrame"
    /\ q[2].op = "Push" /\ q[2].v.tag = "Vloc"
    /\ q[3] = Call

\* the stack right after a call that the caller set up with setframe: the
\* stack at the setframe, then the saved fp, then the return address
CalleeStack ==
    at_setframe.stk \o <<Vloc(at_setframe.fp), Vloc(at_call.ret)>>

\* the latest call was made on the stack of the latest setframe, with the
\* saved fp and the target above it, and with a frame base inside that stack
CallerFramed ==
    /\ Len(at_call.stk) = Len(at_setframe.stk) + 2
    /\ Front(at_call.stk) = Append(at_setframe.stk, Vloc(at_setframe.fp))
    /\ at_call.fp >= 0
    /\ at_call.fp <= Len(at_setframe.stk)

\* C22: after setframe n, push t, call by a caller with frame pointer f and
\* at least n values on its stack, pc is t, fp is the number k of values
\* beneath the n arguments, the stack is the caller's followed by Vloc(f)
\* and the return address, and var j reads argument j for every j < n; a
\* ret executed in that frame with exactly one value v above the two saved
\* locations continues after the call with fp = f and with the stack made
\* of the caller's first k values followed by v
C22_CallerConvention ==
    /\ []((/\ status = "running"
           /\ EndsWith(3, CallSetUp)
           /\ recent[Len(recent) - 2].n <= Len(at_setframe.stk))
          => LET n == recent[Len(recent) - 2].n
                 t == recent[Len(recent) - 1].v.val
                 k == Len(at_setframe.stk) - n
             IN  /\ pc = t
                 /\ fp = k
                 /\ stk = CalleeStack
                 /\ \A j \in 0..(n - 1) :
                       LET o == ExecVar(j, overflow_checks, pc + 1, fp, stk,
                                        heap)
                       IN  Len(stk) < STK_SIZE =>
                               /\ o.status = "running"
                               /\ o.stk = Append(stk,
                                                 at_setframe.stk[k + j + 1]))
    /\ [][(/\ Fetchable
           /\ Cur = Ret
           /\ CallerFramed
           /\ fp = at_call.fp
           /\ Len(stk) = Len(CalleeStack) + 1
           /\ Front(stk) = CalleeStack)
          => /\ status' = "running"
             /\ pc' = at_call.ret
             /\ fp' = at_setframe.fp
             /\ stk' = Append(SubSeq(at_setframe.stk, 1, at_call.fp),
                              stk[Len(stk)])]_vars

\* a caller inside a frame of its own, with one value beneath two arguments,
\* is back after a subroutine that returned its argument 1
C22_Witness ==
    /\ status = "running"
    /\ Len(recent) = 5
    /\ recent[1] = SetFrame(2)
    /\ CallSetUp(SubSeq(recent, 1, 3))
    /\ recent[4] = Var(1)
    /\ recent[5] = Ret
    /\ CallerFramed
    /\ at_setframe.fp = 1
    /\ at_setframe.stk = <<Vi32(7), Vloc(0), Vi32(1), Vi32(2), Vi32(3)>>
    /\ pc = at_call.ret
    /\ fp = 1
    /\ stk = <<Vi32(7), Vloc(0), Vi32(1), Vi32(3)>>

====
